---- MODULE Spec2Model ----
(***************************************************************************)
(* A model of src/app.py: a Flask application that receives GitHub        *)
(* webhook deliveries (POST /webhook), verifies their HMAC-SHA1           *)
(* signature, formats push / pull_request events into one line of text,   *)
(* inserts the line into a MongoDB collection, and serves the latest 50   *)
(* lines (GET /api/events).                                               *)
(*                                                                         *)
(* Three specifications share the module:                                 *)
(*   Spec        the server: concurrent request handlers over the store;  *)
(*   SpecVerify  verify_signature applied to inputs drawn by Init, and    *)
(*               deliveries built from the same inputs;                   *)
(*   SpecTime    format_timestamp applied to timestamps drawn by Init.    *)
(*                                                                         *)
(* Python strings are TLA+ strings, handled character by character with   *)
(* Len, SubSeq and \o.                                                     *)
(***************************************************************************)
EXTENDS Integers, Sequences, FiniteSets, TLC

VARIABLES
    SECRET_TOKEN,   \* app.py:16, the configured shared secret ("" when unset)
    clock,          \* number of datetime.utcnow() readings taken so far
    store,          \* the MongoDB collection, in insertion order
    handlers,       \* the handle_webhook calls in flight between app.py:125 and app.py:204
    response,       \* the last HTTP response sent, with the request it answers
    vin, vout,      \* SpecVerify: the arguments of verify_signature, its result
    tin, tout       \* SpecTime: the timestamp given to format_timestamp, its result

vars == <<SECRET_TOKEN, clock, store, handlers, response, vin, vout, tin, tout>>

----------------------------------------------------------------------------
(* Python values (the JSON tree that request.get_json returns) and the    *)
(* outcome of evaluating an expression: a value, or a raised exception.   *)

PyNone     == [t |-> "NoneType"]
PyBool(b)  == [t |-> "bool", v |-> b]
PyInt(n)   == [t |-> "int",  v |-> n]
PyStr(s)   == [t |-> "str",  v |-> s]
PyList(q)  == [t |-> "list", v |-> q]
PyDict(d)  == [t |-> "dict", v |-> d]
EmptyDict  == [k \in {} |-> PyNone]

Ok(v)      == [exc |-> "", val |-> v]
Raise(e)   == [exc |-> e, val |-> PyNone]

\* obj[key] for a string key: KeyError on a dict without the key, TypeError on
\* every value that is not a dict (None, bool, int, str and list take no str index).
Subscript(obj, key) ==
    IF obj.t = "dict"
    THEN IF key \in DOMAIN obj.v THEN Ok(obj.v[key]) ELSE Raise("KeyError")
    ELSE Raise("TypeError")

\* obj[k1][k2], evaluated left to right.
Subscript2(obj, k1, k2) ==
    LET a == Subscript(obj, k1)
    IN  IF a.exc # "" THEN a ELSE Subscript(a.val, k2)

\* obj.get(key, default): AttributeError on every value that is not a dict.
DictGet(obj, key, default) ==
    IF obj.t = "dict"
    THEN Ok(IF key \in DOMAIN obj.v THEN obj.v[key] ELSE default)
    ELSE Raise("AttributeError")

\* bool(v), Python's truth value.
Truthy(v) ==
    CASE v.t = "NoneType" -> FALSE
      [] v.t = "bool"     -> v.v
      [] v.t = "int"      -> v.v # 0
      [] v.t = "str"      -> v.v # ""
      [] v.t = "list"     -> v.v # <<>>
      [] v.t = "dict"     -> DOMAIN v.v # {}

\* v == "s" for a str literal s.
EqStr(v, s) == v.t = "str" /\ v.v = s

\* f"{v}": str(v). Containers are covered when empty, which is all the
\* request bodies below put in a formatted position.
py_format(v) ==
    CASE v.t = "NoneType" -> "None"
      [] v.t = "bool"     -> IF v.v THEN "True" ELSE "False"
      [] v.t = "int"      -> ToString(v.v)
      [] v.t = "str"      -> v.v
      [] v.t = "list" /\ v.v = <<>>        -> "[]"
      [] v.t = "dict" /\ DOMAIN v.v = {}   -> "{}"

----------------------------------------------------------------------------
(* Strings.                                                                *)

CharAt(s, i) == SubSeq(s, i, i)

\* The index of the first sep at or after position i, or 0.
RECURSIVE FindFrom(_, _, _)
FindFrom(s, sep, i) ==
    IF i > Len(s) THEN 0
    ELSE IF CharAt(s, i) = sep THEN i
    ELSE FindFrom(s, sep, i + 1)

\* s.split(sep) for a one-character sep: the pieces between the separators
\* ("".split("=") is [""], "a=".split("=") is ["a", ""]).
RECURSIVE str_split(_, _)
str_split(s, sep) ==
    LET i == FindFrom(s, sep, 1)
    IN  IF i = 0 THEN <<s>>
        ELSE <<SubSeq(s, 1, i - 1)>> \o str_split(SubSeq(s, i + 1, Len(s)), sep)

\* s.endswith(suffix) for a one-character suffix.
str_endswith(s, c) == Len(s) >= 1 /\ CharAt(s, Len(s)) = c

\* s.replace(old, new) for a one-character old.
RECURSIVE str_replace(_, _, _)
str_replace(s, old, new) ==
    IF s = "" THEN ""
    ELSE (IF CharAt(s, 1) = old THEN new ELSE CharAt(s, 1))
         \o str_replace(SubSeq(s, 2, Len(s)), old, new)

AsciiChars ==
    { " ", "!", "#", "$", "%", "&", "'", "(", ")", "*", "+", ",", "-", ".", "/",
      "0", "1", "2", "3", "4", "5", "6", "7", "8", "9", ":", ";", "<", "=", ">",
      "?", "@", "A", "B", "C", "D", "E", "F", "G", "H", "I", "J", "K", "L", "M",
      "N", "O", "P", "Q", "R", "S", "T", "U", "V", "W", "X", "Y", "Z", "[", "]",
      "^", "_", "a", "b", "c", "d", "e", "f", "g", "h", "i", "j", "k", "l",
      "m", "n", "o", "p", "q", "r", "s", "t", "u", "v", "w", "x", "y", "z", "{",
      "|", "}", "~", "\"", "\\" }

\* str.isascii(), over the printable ASCII characters (the backquote, which no
\* input below contains, is left out of AsciiChars).
IsAscii(s) == \A i \in 1..Len(s) : CharAt(s, i) \in AsciiChars

----------------------------------------------------------------------------
(* Request bodies: the raw text of request.data, and the tree json.loads   *)
(* gives for it. Body01..Body12 are push payloads, Body13..Body30          *)
(* pull_request payloads, Body31..Body34 bodies of neither shape.          *)

\* d with key k set to v, and d without key k.
With(d, k, v) == [x \in DOMAIN d \cup {k} |-> IF x = k THEN v ELSE d[x]]
Without(d, k) == [x \in DOMAIN d \ {k} |-> d[x]]

PushPayload ==
    [pusher |-> PyDict([name |-> PyStr("alice")]), ref |-> PyStr("refs/heads/main"), head_commit |-> PyDict([timestamp |-> PyStr("2021-04-01T21:30:00Z")])]

PullRequest ==
    [user |-> PyDict([login |-> PyStr("bob")]), head |-> PyDict([ref |-> PyStr("dev")]), base |-> PyDict([ref |-> PyStr("main")]), created_at |-> PyStr("2021-04-01T09:00:00Z"), merged |-> PyBool(FALSE), merged_at |-> PyNone]

Body01 == "{\"pusher\":{\"name\":\"alice\"},\"ref\":\"refs/heads/main\",\"head_commit\":{\"timestamp\":\"2021-04-01T21:30:00Z\"}}"
Body02 == "{\"ref\":\"refs/heads/main\",\"head_commit\":{\"timestamp\":\"2021-04-01T21:30:00Z\"}}"
Body03 == "{\"pusher\":null,\"ref\":\"refs/heads/main\",\"head_commit\":{\"timestamp\":\"2021-04-01T21:30:00Z\"}}"
Body04 == "{\"pusher\":\"alice\",\"ref\":\"refs/heads/main\",\"head_commit\":{\"timestamp\":\"2021-04-01T21:30:00Z\"}}"
Body05 == "{\"pusher\":{},\"ref\":\"refs/heads/main\",\"head_commit\":{\"timestamp\":\"2021-04-01T21:30:00Z\"}}"
Body06 == "{\"pusher\":{\"name\":\"alice\"},\"head_commit\":{\"timestamp\":\"2021-04-01T21:30:00Z\"}}"
Body07 == "{\"pusher\":{\"name\":\"alice\"},\"ref\":null,\"head_commit\":{\"timestamp\":\"2021-04-01T21:30:00Z\"}}"
Body08 == "{\"pusher\":{\"name\":\"alice\"},\"ref\":\"refs/heads/main\"}"
Body09 == "{\"pusher\":{\"name\":\"alice\"},\"ref\":\"refs/heads/main\",\"head_commit\":null}"
Body10 == "{\"pusher\":{\"name\":\"alice\"},\"ref\":\"refs/heads/main\",\"head_commit\":{}}"
Body11 == "{\"pusher\":{\"name\":\"alice\"},\"ref\":\"refs/heads/main\",\"head_commit\":{\"timestamp\":\"yesterday\"}}"
Body12 == "{\"pusher\":{\"name\":\"alice\"},\"ref\":\"refs/heads/main\",\"head_commit\":{\"timestamp\":1617312600}}"
Body13 == "{\"action\":\"opened\",\"pull_request\":{\"user\":{\"login\":\"bob\"},\"head\":{\"ref\":\"dev\"},\"base\":{\"ref\":\"main\"},\"created_at\":\"2021-04-01T09:00:00Z\",\"merged\":false,\"merged_at\":null}}"
Body14 == "{\"action\":\"opened\"}"
Body15 == "{\"action\":\"opened\",\"pull_request\":null}"
Body16 == "{\"action\":\"opened\",\"pull_request\":{\"user\":null,\"head\":{\"ref\":\"dev\"},\"base\":{\"ref\":\"main\"},\"created_at\":\"2021-04-01T09:00:00Z\",\"merged\":false,\"merged_at\":null}}"
Body17 == "{\"action\":\"opened\",\"pull_request\":{\"user\":{\"login\":\"bob\"},\"head\":{\"ref\":\"dev\"},\"base\":{\"ref\":\"main\"},\"merged\":false,\"merged_at\":null}}"
Body18 == "{\"action\":\"opened\",\"pull_request\":{\"user\":{\"login\":\"bob\"},\"head\":{\"ref\":\"dev\"},\"base\":{\"ref\":\"main\"},\"created_at\":\"yesterday\",\"merged\":false,\"merged_at\":null}}"
Body19 == "{\"action\":\"closed\",\"pull_request\":{\"user\":{\"login\":\"bob\"},\"head\":{\"ref\":\"dev\"},\"base\":{\"ref\":\"main\"},\"created_at\":\"2021-04-01T09:00:00Z\",\"merged\":true,\"merged_at\":\"2021-04-02T02:00:00+05:30\"}}"
Body20 == "{\"action\":\"closed\",\"pull_request\":{\"user\":{\"login\":\"bob\"},\"head\":{\"ref\":\"dev\"},\"base\":{\"ref\":\"main\"},\"created_at\":\"2021-04-01T09:00:00Z\",\"merged\":false,\"merged_at\":null}}"
Body21 == "{\"action\":\"closed\",\"pull_request\":{\"user\":{\"login\":\"bob\"},\"head\":{\"ref\":\"dev\"},\"base\":{\"ref\":\"main\"},\"created_at\":\"2021-04-01T09:00:00Z\",\"merged_at\":null}}"
Body22 == "{\"action\":\"closed\",\"pull_request\":{\"user\":{\"login\":\"bob\"},\"head\":{\"ref\":\"dev\"},\"base\":{\"ref\":\"main\"},\"created_at\":\"2021-04-01T09:00:00Z\",\"merged\":\"no\",\"merged_at\":\"2021-04-02T02:00:00+05:30\"}}"
Body23 == "{\"action\":\"closed\",\"pull_request\":{\"user\":{\"login\":\"bob\"},\"head\":{\"ref\":\"dev\"},\"base\":{\"ref\":\"main\"},\"created_at\":\"2021-04-01T09:00:00Z\",\"merged\":1,\"merged_at\":\"2021-04-02T02:00:00+05:30\"}}"
Body24 == "{\"action\":\"closed\",\"pull_request\":{\"user\":{\"login\":\"bob\"},\"head\":{\"ref\":\"dev\"},\"base\":{\"ref\":\"main\"},\"created_at\":\"2021-04-01T09:00:00Z\",\"merged\":true}}"
Body25 == "{\"action\":\"closed\",\"pull_request\":{\"user\":{\"login\":\"bob\"},\"head\":{\"ref\":\"dev\"},\"base\":{\"ref\":\"main\"},\"created_at\":\"2021-04-01T09:00:00Z\",\"merged\":true,\"merged_at\":null}}"
Body26 == "{\"action\":\"closed\",\"pull_request\":{\"user\":{\"login\":\"bob\"},\"head\":null,\"base\":{\"ref\":\"main\"},\"created_at\":\"2021-04-01T09:00:00Z\",\"merged\":true,\"merged_at\":\"2021-04-02T02:00:00+05:30\"}}"
Body27 == "{\"action\":\"closed\",\"pull_request\":null}"
Body28 == "{\"action\":\"closed\"}"
Body29 == "{\"action\":\"reopened\",\"pull_request\":{\"user\":{\"login\":\"bob\"},\"head\":{\"ref\":\"dev\"},\"base\":{\"ref\":\"main\"},\"created_at\":\"2021-04-01T09:00:00Z\",\"merged\":false,\"merged_at\":null}}"
Body30 == "{\"pull_request\":{\"user\":{\"login\":\"bob\"},\"head\":{\"ref\":\"dev\"},\"base\":{\"ref\":\"main\"},\"created_at\":\"2021-04-01T09:00:00Z\",\"merged\":false,\"merged_at\":null}}"
Body31 == "not json"
Body32 == "null"
Body33 == "[]"
Body34 == "{}"

\* json.loads on the request bodies above (Body31 is not JSON and has no entry).
json_loads(data) ==
    CASE data = Body01 -> PyDict(PushPayload)
      [] data = Body02 -> PyDict(Without(PushPayload, "pusher"))
      [] data = Body03 -> PyDict(With(PushPayload, "pusher", PyNone))
      [] data = Body04 -> PyDict(With(PushPayload, "pusher", PyStr("alice")))
      [] data = Body05 -> PyDict(With(PushPayload, "pusher", PyDict(EmptyDict)))
      [] data = Body06 -> PyDict(Without(PushPayload, "ref"))
      [] data = Body07 -> PyDict(With(PushPayload, "ref", PyNone))
      [] data = Body08 -> PyDict(Without(PushPayload, "head_commit"))
      [] data = Body09 -> PyDict(With(PushPayload, "head_commit", PyNone))
      [] data = Body10 -> PyDict(With(PushPayload, "head_commit", PyDict(EmptyDict)))
      [] data = Body11 -> PyDict(With(PushPayload, "head_commit", PyDict([timestamp |-> PyStr("yesterday")])))
      [] data = Body12 -> PyDict(With(PushPayload, "head_commit", PyDict([timestamp |-> PyInt(1617312600)])))
      [] data = Body13 -> PyDict([action |-> PyStr("opened"), pull_request |-> PyDict(PullRequest)])
      [] data = Body14 -> PyDict([action |-> PyStr("opened")])
      [] data = Body15 -> PyDict([action |-> PyStr("opened"), pull_request |-> PyNone])
      [] data = Body16 -> PyDict([action |-> PyStr("opened"), pull_request |-> PyDict(With(PullRequest, "user", PyNone))])
      [] data = Body17 -> PyDict([action |-> PyStr("opened"), pull_request |-> PyDict(Without(PullRequest, "created_at"))])
      [] data = Body18 -> PyDict([action |-> PyStr("opened"), pull_request |-> PyDict(With(PullRequest, "created_at", PyStr("yesterday")))])
      [] data = Body19 -> PyDict([action |-> PyStr("closed"), pull_request |-> PyDict(With(With(PullRequest, "merged", PyBool(TRUE)), "merged_at", PyStr("2021-04-02T02:00:00+05:30")))])
      [] data = Body20 -> PyDict([action |-> PyStr("closed"), pull_request |-> PyDict(PullRequest)])
      [] data = Body21 -> PyDict([action |-> PyStr("closed"), pull_request |-> PyDict(Without(PullRequest, "merged"))])
      [] data = Body22 -> PyDict([action |-> PyStr("closed"), pull_request |-> PyDict(With(With(PullRequest, "merged", PyStr("no")), "merged_at", PyStr("2021-04-02T02:00:00+05:30")))])
      [] data = Body23 -> PyDict([action |-> PyStr("closed"), pull_request |-> PyDict(With(With(PullRequest, "merged", PyInt(1)), "merged_at", PyStr("2021-04-02T02:00:00+05:30")))])
      [] data = Body24 -> PyDict([action |-> PyStr("closed"), pull_request |-> PyDict(Without(With(With(PullRequest, "merged", PyBool(TRUE)), "merged_at", PyStr("2021-04-02T02:00:00+05:30")), "merged_at"))])
      [] data = Body25 -> PyDict([action |-> PyStr("closed"), pull_request |-> PyDict(With(PullRequest, "merged", PyBool(TRUE)))])
      [] data = Body26 -> PyDict([action |-> PyStr("closed"), pull_request |-> PyDict(With(With(With(PullRequest, "merged", PyBool(TRUE)), "merged_at", PyStr("2021-04-02T02:00:00+05:30")), "head", PyNone))])
      [] data = Body27 -> PyDict([action |-> PyStr("closed"), pull_request |-> PyNone])
      [] data = Body28 -> PyDict([action |-> PyStr("closed")])
      [] data = Body29 -> PyDict([action |-> PyStr("reopened"), pull_request |-> PyDict(PullRequest)])
      [] data = Body30 -> PyDict([pull_request |-> PyDict(PullRequest)])
      [] data = Body32 -> PyNone
      [] data = Body33 -> PyList(<<>>)
      [] data = Body34 -> PyDict(EmptyDict)

JsonBodies ==
    { Body01, Body02, Body03, Body04, Body05, Body06, Body07, Body08, Body09,
      Body10, Body11, Body12, Body13, Body14, Body15, Body16, Body17, Body18,
      Body19, Body20, Body21, Body22, Body23, Body24, Body25, Body26, Body27,
      Body28, Body29, Body30, Body32, Body33, Body34 }

\* request.get_json(silent=True): the parsed body, or None when the body is
\* not JSON (silent=True turns the parse error into None).
get_json(data) == IF data \in JsonBodies THEN json_loads(data) ELSE PyNone

----------------------------------------------------------------------------
(* verify_signature, app.py:23-39.                                         *)

\* The request header X-Hub-Signature: <<>> when the header is absent
\* (request.headers.get gives None), <<s>> when it is present with value s.
NoHeader   == <<>>
Header(s)  == <<s>>

\* hmac.new(key, msg, sha1).hexdigest(): the HMAC-SHA1 digests of the bodies
\* that deliveries sign below, under each secret.
hmac_sha1_hexdigest(key, msg) ==
    CASE key = "" /\ msg = Body01 -> "b04b58e9b0935009dfa9d13412fd258c16c5c4f8"
      [] key = "" /\ msg = Body19 -> "95a41a800405e8595063a2c24795efa355b6931f"
      [] key = "" /\ msg = Body31 -> "f36ffc17cfce776f2d8c6cbc8c394d710b547e48"
      [] key = "s3cret" /\ msg = Body01 -> "51d06c5a7e284467ce170218ffcfca81abdb7963"
      [] key = "s3cret" /\ msg = Body19 -> "b4986a7ad0923a3ab02b3414ad39539bcee73ef0"
      [] key = "s3cret" /\ msg = Body31 -> "3a117c44cbb017231019ad3b4aafc898b6c9fdc0"
      [] key = "hunter2" /\ msg = Body01 -> "129b4fae5afd72283eccaeb336d500dbd1e8e7e6"
      [] key = "hunter2" /\ msg = Body19 -> "363802623abaf2621f56baba36f6b76425af62f9"
      [] key = "hunter2" /\ msg = Body31 -> "655ddd5cf35a4137f5bb77e0fa3a5f2105ffb5b8"

\* hmac.compare_digest(a, b) on two str: TypeError unless both are ASCII.
compare_digest(a, b) ==
    IF IsAscii(a) /\ IsAscii(b) THEN Ok(a = b) ELSE Raise("TypeError")

\* A variant of SkipVerification: `and` in place of `or`.
SkipWhenBothMissing(signature_header) ==
    SECRET_TOKEN = "" /\ (signature_header = NoHeader \/ signature_header[1] = "")

\* app.py:27, `not SECRET_TOKEN or not signature_header`: the secret is the
\* empty string, or the header is None or the empty string.
SkipVerification(signature_header) ==
    SECRET_TOKEN = "" \/ signature_header = NoHeader \/ signature_header[1] = ""

\* app.py:30-39. (None has no split: AttributeError.)
CheckSignature(payload_bytes, signature_header) ==
    IF signature_header = NoHeader THEN Raise("AttributeError")
    ELSE LET parts == str_split(signature_header[1], "=")
         IN  IF Len(parts) # 2 THEN Ok(FALSE)          \* ValueError on unpacking
             ELSE IF parts[1] # "sha1" THEN Ok(FALSE)
             ELSE compare_digest(hmac_sha1_hexdigest(SECRET_TOKEN, payload_bytes),
                                 parts[2])

verify_signature(payload_bytes, signature_header) ==
    IF SkipVerification(signature_header) THEN Ok(TRUE)
    ELSE CheckSignature(payload_bytes, signature_header)

----------------------------------------------------------------------------
(* format_timestamp, app.py:56-88, with the parts of the datetime module   *)
(* it calls: datetime.fromisoformat, datetime.astimezone, strftime.        *)

Digits == { "0", "1", "2", "3", "4", "5", "6", "7", "8", "9" }

DigitVal(c) ==
    CASE c = "0" -> 0 [] c = "1" -> 1 [] c = "2" -> 2 [] c = "3" -> 3 [] c = "4" -> 4
      [] c = "5" -> 5 [] c = "6" -> 6 [] c = "7" -> 7 [] c = "8" -> 8 [] c = "9" -> 9

AllDigits(s, from, to) == \A i \in from..to : CharAt(s, i) \in Digits

\* int(s[from:to]) for a run of digits.
RECURSIVE ParseInt(_, _, _)
ParseInt(s, from, to) ==
    IF to < from THEN 0
    ELSE 10 * ParseInt(s, from, to - 1) + DigitVal(CharAt(s, to))

\* datetime._is_leap, _days_in_month, _days_before_year, _days_before_month, _ymd2ord
is_leap(year) == year % 4 = 0 /\ (year % 100 # 0 \/ year % 400 = 0)

DAYS_IN_MONTH == <<31, 28, 31, 30, 31, 30, 31, 31, 30, 31, 30, 31>>

days_in_month(year, month) ==
    IF month = 2 /\ is_leap(year) THEN 29 ELSE DAYS_IN_MONTH[month]

days_before_year(year) ==
    LET y == year - 1 IN y * 365 + (y \div 4) - (y \div 100) + (y \div 400)

RECURSIVE days_before_month(_, _)
days_before_month(year, month) ==
    IF month = 1 THEN 0
    ELSE days_before_month(year, month - 1) + days_in_month(year, month - 1)

ymd2ord(year, month, day) ==
    days_before_year(year) + days_before_month(year, month) + day

\* datetime._ord2ymd: the proleptic Gregorian date of an ordinal, by 400-year,
\* 100-year, 4-year and 1-year cycles.
ord2ymd(ordinal) ==
    LET n0   == ordinal - 1
        n400 == n0 \div 146097
        r400 == n0 % 146097
        n100 == r400 \div 36524
        r100 == r400 % 36524
        n4   == r100 \div 1461
        r4   == r100 % 1461
        n1   == r4 \div 365
        n    == r4 % 365
        year == n400 * 400 + 1 + n100 * 100 + n4 * 4 + n1
        leapyear == n1 = 3 /\ (n4 # 24 \/ n100 = 3)
        month0 == (n + 50) \div 32
        before(m) == days_before_month(IF leapyear THEN 4 ELSE 1, m)
        month == IF before(month0) > n THEN month0 - 1 ELSE month0
    IN  IF n1 = 4 \/ n100 = 4
        THEN [year |-> year - 1, month |-> 12, day |-> 31]
        ELSE [year |-> year, month |-> month, day |-> n - before(month) + 1]

\* datetime.fromisoformat on YYYY-MM-DD, a separator, HH:MM:SS and an optional
\* +HH:MM or -HH:MM offset; ValueError on anything else. (The spellings with
\* fractional seconds or without a time are not among the inputs drawn.)
fromisoformat(s) ==
    LET shape ==
            /\ Len(s) \in {19, 25}
            /\ AllDigits(s, 1, 4) /\ CharAt(s, 5) = "-"
            /\ AllDigits(s, 6, 7) /\ CharAt(s, 8) = "-"
            /\ AllDigits(s, 9, 10) /\ CharAt(s, 11) \in {"T", " "}
            /\ AllDigits(s, 12, 13) /\ CharAt(s, 14) = ":"
            /\ AllDigits(s, 15, 16) /\ CharAt(s, 17) = ":"
            /\ AllDigits(s, 18, 19)
            /\ Len(s) = 25 =>
                 /\ CharAt(s, 20) \in {"+", "-"}
                 /\ AllDigits(s, 21, 22) /\ CharAt(s, 23) = ":"
                 /\ AllDigits(s, 24, 25)
        year   == ParseInt(s, 1, 4)
        month  == ParseInt(s, 6, 7)
        day    == ParseInt(s, 9, 10)
        hour   == ParseInt(s, 12, 13)
        minute == ParseInt(s, 15, 16)
        second == ParseInt(s, 18, 19)
        aware  == Len(s) = 25
        offmag == ParseInt(s, 21, 22) * 60 + ParseInt(s, 24, 25)
        inrange ==
            /\ year >= 1 /\ month \in 1..12
            /\ day \in 1..days_in_month(year, month)
            /\ hour <= 23 /\ minute <= 59 /\ second <= 59
            /\ aware => ParseInt(s, 21, 22) <= 23 /\ ParseInt(s, 24, 25) <= 59
    IN  IF ~shape THEN Raise("ValueError")
        ELSE IF ~inrange THEN Raise("ValueError")
        ELSE Ok([year |-> year, month |-> month, day |-> day, hour |-> hour,
                 minute |-> minute, second |-> second, aware |-> aware,
                 utcoffset |-> IF ~aware THEN 0
                               ELSE IF CharAt(s, 20) = "-" THEN 0 - offmag ELSE offmag])

\* The UTC offset, in minutes, of the zone the server runs in: what
\* astimezone assumes for a datetime that carries no offset.
SystemUtcOffset == 0

\* dt.astimezone(timezone.utc): the same instant with offset 0. The date moves
\* through its ordinal, as datetime's subtraction of a timedelta does.
\* OverflowError when the result leaves the years 1..9999.
astimezone_utc(dt) ==
    LET offset  == IF dt.aware THEN dt.utcoffset ELSE SystemUtcOffset
        minutes == dt.hour * 60 + dt.minute - offset
        shift   == IF minutes < 0 THEN 0 - 1 ELSE IF minutes >= 1440 THEN 1 ELSE 0
        inday   == minutes - shift * 1440
        ordinal == ymd2ord(dt.year, dt.month, dt.day) + shift
        date    == ord2ymd(ordinal)
    IN  IF ordinal < 1 \/ ordinal > 3652059 THEN Raise("OverflowError")
        ELSE Ok([year |-> date.year, month |-> date.month, day |-> date.day,
                 hour |-> inday \div 60, minute |-> inday % 60, second |-> dt.second,
                 aware |-> TRUE, utcoffset |-> 0])

MonthName ==
    << "January", "February", "March", "April", "May", "June", "July",
       "August", "September", "October", "November", "December" >>

\* "%02d" % n
Pad2(n) == IF n < 10 THEN "0" \o ToString(n) ELSE ToString(n)

\* dt.strftime("%B %Y - %I:%M %p UTC")
strftime(dt) ==
    LET hour12 == IF dt.hour % 12 = 0 THEN 12 ELSE dt.hour % 12
    IN  MonthName[dt.month] \o " " \o ToString(dt.year) \o " - " \o Pad2(hour12)
        \o ":" \o Pad2(dt.minute) \o " " \o (IF dt.hour < 12 THEN "AM" ELSE "PM")
        \o " UTC"

\* app.py:76-80, the ordinal suffix of a day of the month.
ordinal_suffix(day) ==
    IF 11 <= day /\ day <= 13 THEN "th"
    ELSE CASE day % 10 = 1 -> "st"
           [] day % 10 = 2 -> "nd"
           [] day % 10 = 3 -> "rd"
           [] OTHER        -> "th"

\* A variant of printed_day: the day before the conversion to UTC.
printed_day_local(dt, dt_utc) == dt.day

\* The day that format_timestamp prints: dt_utc.day (app.py:76).
printed_day(dt, dt_utc) == dt_utc.day

\* format_timestamp on a str: the text, or the exception it raises.
format_timestamp_str(iso_ts) ==
    LET ts_fixed == IF str_endswith(iso_ts, "Z")
                    THEN str_replace(iso_ts, "Z", "+00:00")
                    ELSE iso_ts
        dt       == fromisoformat(ts_fixed)
        dt_utc   == astimezone_utc(dt.val)
        day      == printed_day(dt.val, dt_utc.val)
    IN  IF dt.exc # "" THEN dt
        ELSE IF dt_utc.exc # "" THEN dt_utc
        ELSE Ok(ToString(day) \o ordinal_suffix(day) \o " " \o strftime(dt_utc.val))

\* format_timestamp on any Python value: a value that is not a str has no
\* endswith (AttributeError at app.py:64).
format_timestamp(iso_ts) ==
    IF iso_ts.t # "str" THEN Raise("AttributeError")
    ELSE format_timestamp_str(iso_ts.v)

----------------------------------------------------------------------------
(* handle_webhook, app.py:105-205. Its outcome up to the insert: the       *)
(* response it returns early, or the document it goes on to insert.        *)
(* sampled says whether it read the clock (app.py:125).                    *)

Respond(status, body, sampled) ==
    [insert |-> FALSE, sampled |-> sampled, status |-> status, body |-> body,
     doc |-> [inserted_at |-> 0, formatted |-> ""]]

\* An exception that leaves handle_webhook: Flask answers 500.
Propagate(exc, sampled) == Respond(500, "Internal Server Error", sampled)

ToInsert(doc) ==
    [insert |-> TRUE, sampled |-> TRUE, status |-> 0, body |-> "", doc |-> doc]

\* The first exception raised by a sequence of evaluations, or "".
RECURSIVE FirstExc(_)
FirstExc(rs) ==
    IF rs = <<>> THEN ""
    ELSE IF Head(rs).exc # "" THEN Head(rs).exc
    ELSE FirstExc(Tail(rs))

\* ref.split("/")[-1]: AttributeError when ref is not a str.
last_segment(ref) ==
    IF ref.t # "str" THEN Raise("AttributeError")
    ELSE LET parts == str_split(ref.v, "/") IN Ok(PyStr(parts[Len(parts)]))

\* The except clauses of app.py:136, 160 and 181 catch KeyError and nothing else.
OnExtractError(exc) ==
    IF exc = "KeyError" THEN Respond(200, "ignored-key-error", TRUE)
    ELSE Propagate(exc, TRUE)

\* app.py:144, 170, 191: except Exception around the formatting.
OnFormatError(exc) == Respond(200, "error-formatting", TRUE)

\* app.py:130-146
HandlePush(payload, doc) ==
    LET author    == Subscript2(payload, "pusher", "name")
        ref       == Subscript(payload, "ref")
        to_branch == IF ref.exc # "" THEN ref ELSE last_segment(ref.val)
        ts        == Subscript2(payload, "head_commit", "timestamp")
        exc       == FirstExc(<<author, ref, to_branch, ts>>)
        when      == format_timestamp(ts.val)
    IN  IF exc # "" THEN OnExtractError(exc)
        ELSE IF when.exc # "" THEN OnFormatError(when.exc)
        ELSE ToInsert([doc EXCEPT !.formatted =
                 "\"" \o py_format(author.val) \o "\" pushed to \""
                 \o py_format(to_branch.val) \o "\" on " \o when.val])

\* app.py:155-172 (tsKey = "created_at") and app.py:176-193 (tsKey = "merged_at")
HandlePullRequest(pr, doc, tsKey, verb, joiner) ==
    LET author      == Subscript2(pr, "user", "login")
        from_branch == Subscript2(pr, "head", "ref")
        to_branch   == Subscript2(pr, "base", "ref")
        ts          == Subscript(pr, tsKey)
        exc         == FirstExc(<<author, from_branch, to_branch, ts>>)
        when        == format_timestamp(ts.val)
    IN  IF exc # "" THEN OnExtractError(exc)
        ELSE IF when.exc # "" THEN OnFormatError(when.exc)
        ELSE ToInsert([doc EXCEPT !.formatted =
                 "\"" \o py_format(author.val) \o "\" " \o verb \o " \""
                 \o py_format(from_branch.val) \o "\" " \o joiner \o " \""
                 \o py_format(to_branch.val) \o "\" on " \o when.val])

\* app.py:175, the test `pr.get("merged", False)` of the closed branch.
MergedTest(merged) == Truthy(merged)

\* app.py:195-197
IgnoredPullAction(doc) == Respond(200, "ignored-pull-action", TRUE)

\* A variant of IgnoredEvent: no return, the handler goes on to the insert.
IgnoredEventFallsThrough(doc) == ToInsert(doc)

\* app.py:199-201
IgnoredEvent(doc) == Respond(200, "ignored-event", TRUE)

\* app.py:149-197
HandlePullRequestEvent(payload, doc) ==
    LET action == DictGet(payload, "action", PyStr(""))
        pr     == DictGet(payload, "pull_request", PyDict(EmptyDict))
        merged == DictGet(pr.val, "merged", PyBool(FALSE))
    IN  IF action.exc # "" THEN Propagate(action.exc, TRUE)
        ELSE IF EqStr(action.val, "opened")
        THEN HandlePullRequest(pr.val, doc, "created_at",
                               "submitted a pull request from", "to")
        ELSE IF ~EqStr(action.val, "closed") THEN IgnoredPullAction(doc)
        ELSE IF merged.exc # "" THEN Propagate(merged.exc, TRUE)
        ELSE IF MergedTest(merged.val)
        THEN HandlePullRequest(pr.val, doc, "merged_at", "merged branch", "to")
        ELSE IgnoredPullAction(doc)

\* app.py:116-201: what follows the signature check. now is the reading of
\* datetime.utcnow() at app.py:125.
AfterSignature(request, now) ==
    LET event_type == request.event
        payload    == get_json(request.data)
        doc        == [inserted_at |-> now, formatted |-> ""]
    IN  IF payload = PyNone THEN Respond(400, "no-json-payload", FALSE)
        ELSE IF event_type = "push" THEN HandlePush(payload, doc)
        ELSE IF event_type = "pull_request" THEN HandlePullRequestEvent(payload, doc)
        ELSE IgnoredEvent(doc)

\* A variant of handle_webhook: the JSON check ahead of the signature check.
handle_webhook_json_first(request, now) ==
    LET ok == verify_signature(request.data, request.sig)
    IN  IF get_json(request.data) = PyNone THEN Respond(400, "no-json-payload", FALSE)
        ELSE IF ok.exc # "" THEN Propagate(ok.exc, FALSE)
        ELSE IF ~ok.val THEN Respond(403, "Invalid signature", FALSE)
        ELSE AfterSignature(request, now)

\* app.py:112-201
handle_webhook(request, now) ==
    LET ok == verify_signature(request.data, request.sig)
    IN  IF ok.exc # "" THEN Propagate(ok.exc, FALSE)
        ELSE IF ~ok.val THEN Respond(403, "Invalid signature", FALSE)
        ELSE AfterSignature(request, now)

\* A variant of insert_one: the document written twice.
insert_one_twice(coll, doc) == Append(Append(coll, doc), doc)

\* collection.insert_one(doc), app.py:204
insert_one(coll, doc) == Append(coll, doc)

\* collection.find().sort("inserted_at", -1).limit(50), app.py:101: the
\* orders in which the documents can come back. Documents with equal
\* inserted_at come back in either order.
EVENTS_LIMIT == 50

Take(q, n) == SubSeq(q, 1, IF Len(q) < n THEN Len(q) ELSE n)

find_sorted(coll) ==
    { Take([i \in 1..Len(coll) |-> coll[p[i]]], EVENTS_LIMIT) :
        p \in { q \in Permutations(1..Len(coll)) :
                  \A i, j \in 1..Len(coll) :
                      i < j => coll[q[i]].inserted_at >= coll[q[j]].inserted_at } }

----------------------------------------------------------------------------
(* The server: request handlers over the shared collection. Flask's       *)
(* server runs each request on a thread of its own; a handle_webhook call  *)
(* touches shared state twice: it reads the clock (app.py:125) and it      *)
(* inserts (app.py:204). Begin is the call up to its early return or up    *)
(* to the insert, Insert is the insert and the 201 response. handlers      *)
(* holds the calls that are between the two, each with its request and     *)
(* the document it built.                                                  *)
(* Every reading of the clock gives a later instant than the one before,   *)
(* so no two documents carry the same inserted_at; MaxClock bounds the     *)
(* number of readings, and with it the calls in flight and the store.      *)

MaxClock == 2

Events == { "push", "pull_request", "ping" }

SignedBodies == { Body01, Body19, Body31 }

Secrets == { "", "s3cret", "hunter2" }

SignatureOf(key, data) == Header("sha1=" \o hmac_sha1_hexdigest(key, data))

PushBodies ==
    { Body01, Body02, Body03, Body04, Body05, Body06, Body07, Body08, Body09,
      Body10, Body11, Body12 }

PullRequestBodies ==
    { Body13, Body14, Body15, Body16, Body17, Body18, Body19, Body20, Body21,
      Body22, Body23, Body24, Body25, Body26, Body27, Body28, Body29, Body30 }

OtherBodies == { Body31, Body32, Body33, Body34 }

Request(data, sig, event) == [data |-> data, sig |-> sig, event |-> event]

\* The deliveries of Spec. Without a signature header: the push bodies as
\* push events, the pull_request bodies as pull_request events, the other
\* bodies and a body of each shape under every event type. With a signature
\* header: a JSON body and a body that is not JSON, signed with the right
\* and with the wrong key.
Requests ==
    { Request(b, NoHeader, "push") : b \in PushBodies }
    \cup { Request(b, NoHeader, "pull_request") : b \in PullRequestBodies }
    \cup { Request(b, NoHeader, e) : b \in OtherBodies \cup { Body01, Body13 },
                                     e \in Events }
    \cup { Request(b, SignatureOf(k, b), "push") :
             b \in { Body01, Body31 }, k \in { "s3cret", "hunter2" } }

NoRequest == [data |-> "", sig |-> NoHeader, event |-> ""]

NoDoc == [inserted_at |-> 0, formatted |-> ""]

NoResponse ==
    [route |-> "", req |-> NoRequest, status |-> 0, body |-> "", list |-> <<>>]

ServerInit ==
    /\ clock = 0
    /\ store = <<>>
    /\ handlers = {}
    /\ response = NoResponse

\* The server of Spec runs with a secret configured; SpecVerify covers the
\* server without one.
Init ==
    /\ SECRET_TOKEN = "s3cret"
    /\ ServerInit
    /\ vin = [payload_bytes |-> "", signature_header |-> NoHeader]
    /\ vout = <<>>
    /\ tin = <<>>
    /\ tout = <<>>

\* POST /webhook, app.py:112-201.
Begin(request) ==
    /\ \E out \in { handle_webhook(request, clock + 1) } :
           /\ out.sampled => clock < MaxClock
           /\ clock' = IF out.sampled THEN clock + 1 ELSE clock
           /\ IF out.insert
              THEN /\ handlers' = handlers \cup { [req |-> request, doc |-> out.doc] }
                   /\ UNCHANGED response
              ELSE /\ response' = [route |-> "/webhook", req |-> request,
                                   status |-> out.status, body |-> out.body,
                                   list |-> <<>>]
                   /\ UNCHANGED handlers
    /\ UNCHANGED <<SECRET_TOKEN, store, vin, vout, tin, tout>>

\* POST /webhook, app.py:203-205, of a call in flight.
Insert ==
    /\ \E h \in handlers :
         /\ store' = insert_one(store, h.doc)
         /\ response' = [route |-> "/webhook", req |-> h.req,
                         status |-> 201, body |-> "stored", list |-> <<>>]
         /\ handlers' = handlers \ { h }
    /\ UNCHANGED <<SECRET_TOKEN, clock, vin, vout, tin, tout>>

\* GET /api/events, app.py:96-103.
GetEvents ==
    /\ \E docs \in find_sorted(store) :
         response' = [route |-> "/api/events", req |-> NoRequest, status |-> 200,
                      body |-> "",
                      list |-> [i \in 1..Len(docs) |-> docs[i].formatted]]
    /\ UNCHANGED <<SECRET_TOKEN, clock, store, handlers, vin, vout, tin, tout>>

Next ==
    \/ \E request \in Requests : Begin(request)
    \/ Insert
    \/ GetEvents

Spec == Init /\ [][Next]_vars

----------------------------------------------------------------------------
(* SpecVerify: verify_signature on arguments drawn by Init, and deliveries *)
(* that carry the same body and header.                                    *)

\* A digest with its first character changed (one bit of "0"/"1" differs).
Changed(d) == (IF CharAt(d, 1) = "1" THEN "0" ELSE "1") \o SubSeq(d, 2, Len(d))

SignatureHeaders ==
    LET d == hmac_sha1_hexdigest("s3cret", Body01)
    IN  { NoHeader, Header("") }
        \cup { SignatureOf(k, b) : k \in Secrets \ {""}, b \in SignedBodies }
        \cup { Header("sha1=" \o Changed(hmac_sha1_hexdigest(k, Body01))) :
                 k \in Secrets \ {""} }
        \cup { Header("sha1=" \o SubSeq(d, 1, Len(d) - 1)),
               Header("sha1=" \o d \o "0"),
               Header("sha1="),
               Header("sha1" \o d),
               Header("sha1"),
               Header("sha256=" \o d),
               Header("SHA1=" \o d),
               Header(" sha1=" \o d),
               Header("=" \o d),
               Header("sha1==" \o d),
               Header("sha1=" \o d \o "="),
               Header("sha1=" \o d \o "=sha1=" \o d),
               Header("sha1=" \o "é"),
               Header("sha1=" \o SubSeq(d, 1, Len(d) - 1) \o "é") }

InitVerify ==
    /\ SECRET_TOKEN \in Secrets
    /\ ServerInit
    /\ vin \in [payload_bytes : SignedBodies, signature_header : SignatureHeaders]
    /\ vout = <<>>
    /\ tin = <<>>
    /\ tout = <<>>

\* A call verify_signature(payload_bytes, signature_header).
VerifyCall ==
    /\ vout = <<>>
    /\ vout' = <<verify_signature(vin.payload_bytes, vin.signature_header)>>
    /\ UNCHANGED <<SECRET_TOKEN, clock, store, handlers, response, vin, tin, tout>>

\* A delivery with the body and the header of vin.
Deliver(e) ==
    Begin(Request(vin.payload_bytes, vin.signature_header, e))

NextVerify ==
    \/ VerifyCall
    \/ \E e \in Events : Deliver(e)
    \/ Insert

SpecVerify == InitVerify /\ [][NextVerify]_vars

----------------------------------------------------------------------------
(* SpecTime: format_timestamp on timestamps drawn by Init.                 *)

FirstYear == 2023
NumYears  == 2

Zones == { "Z", "+00:00", "+05:30", "-08:00", "+14:00", "-12:00" }

TimeInputs ==
    [year : FirstYear..(FirstYear + NumYears - 1), month : 1..12, day : 1..31,
     hour : {0, 11, 12, 23}, minute : {5, 45}, second : {53}, zone : Zones]

Pad4(n) ==
    IF n < 10 THEN "000" \o ToString(n)
    ELSE IF n < 100 THEN "00" \o ToString(n)
    ELSE IF n < 1000 THEN "0" \o ToString(n)
    ELSE ToString(n)

\* The ISO-8601 text of an input, as GitHub writes it.
iso_string(t) ==
    Pad4(t.year) \o "-" \o Pad2(t.month) \o "-" \o Pad2(t.day) \o "T"
    \o Pad2(t.hour) \o ":" \o Pad2(t.minute) \o ":" \o Pad2(t.second) \o t.zone

InitTime ==
    /\ SECRET_TOKEN = ""
    /\ ServerInit
    /\ vin = [payload_bytes |-> "", signature_header |-> NoHeader]
    /\ vout = <<>>
    /\ tin \in { <<t>> : t \in TimeInputs }
    /\ tout = <<>>

\* A call format_timestamp(iso_ts).
FormatCall ==
    /\ tout = <<>>
    /\ tout' = <<format_timestamp(PyStr(iso_string(tin[1])))>>
    /\ UNCHANGED <<SECRET_TOKEN, clock, store, handlers, response, vin, vout, tin>>

NextTime == FormatCall

SpecTime == InitTime /\ [][NextTime]_vars

----------------------------------------------------------------------------
(* The claims.                                                             *)

\* The delivery that the last response answers.
Answered == response.route = "/webhook"

Passes(req) ==
    LET ok == verify_signature(req.data, req.sig) IN ok.exc = "" /\ ok.val

FailsVerification(req) ==
    LET ok == verify_signature(req.data, req.sig) IN ok.exc = "" /\ ~ok.val

\* The value at a path of keys can be read: every parent on the path is a
\* mapping that holds the next key.
RECURSIVE ReadableAt(_, _)
ReadableAt(v, path) ==
    \/ path = <<>>
    \/ /\ v.t = "dict"
       /\ Head(path) \in DOMAIN v.v
       /\ ReadableAt(v.v[Head(path)], Tail(path))

RECURSIVE ValueAt(_, _)
ValueAt(v, path) == IF path = <<>> THEN v ELSE ValueAt(v.v[Head(path)], Tail(path))

IsTrue(v) == v.t = "bool" /\ v.v

ActionIs(payload, a) ==
    ReadableAt(payload, <<"action">>) /\ EqStr(ValueAt(payload, <<"action">>), a)

MergedIsTrue(payload) ==
    /\ ReadableAt(payload, <<"pull_request", "merged">>)
    /\ IsTrue(ValueAt(payload, <<"pull_request", "merged">>))

PushFields == { <<"pusher", "name">>, <<"ref">>, <<"head_commit", "timestamp">> }

PullRequestFields(tsKey) ==
    { <<"pull_request", "user", "login">>, <<"pull_request", "head", "ref">>,
      <<"pull_request", "base", "ref">>, <<"pull_request", tsKey>> }

\* A delivery that passes verification and carries a JSON object.
Accepted(req) ==
    /\ Passes(req)
    /\ req.data \in JsonBodies
    /\ json_loads(req.data).t = "dict"

\* The case of C1: a push, an opened pull request or a merged pull request
\* with a required field that cannot be read.
MissingField(req) ==
    LET payload == json_loads(req.data)
        lacks(paths) == \E p \in paths : ~ReadableAt(payload, p)
    IN  /\ Accepted(req)
        /\ \/ req.event = "push" /\ lacks(PushFields)
           \/ /\ req.event = "pull_request"
              /\ ActionIs(payload, "opened")
              /\ lacks(PullRequestFields("created_at"))
           \/ /\ req.event = "pull_request"
              /\ ActionIs(payload, "closed")
              /\ MergedIsTrue(payload)
              /\ lacks(PullRequestFields("merged_at"))

\* C1: a delivery that passes verification, carries JSON and is a push, an
\* opened or a merged pull request with an unreadable required field (key
\* absent, or a parent absent, null or not a mapping) is answered
\* 200 ignored-key-error. Stated for JSON objects.
C1_MissingFieldIgnored ==
    (Answered /\ MissingField(response.req))
        => (response.status = 200 /\ response.body = "ignored-key-error")

\* C2: the store changes only in a step that answers 201 stored, and that
\* step appends exactly one record; a step that leaves a 403, 400 or 200
\* answer leaves the store as it was; a new 201 answer comes with a record.
C2_OneRecordPerStoredDelivery ==
    [][ /\ (store' # store) =>
             /\ response'.route = "/webhook"
             /\ response'.status = 201 /\ response'.body = "stored"
             /\ Len(store') = Len(store) + 1
             /\ SubSeq(store', 1, Len(store)) = store
        /\ (response'.route = "/webhook" /\ response'.status \in {403, 400, 200})
             => store' = store
        /\ (response' # response /\ response'.status = 201)
             => Len(store') = Len(store) + 1 ]_vars

C2_Witness ==
    /\ Answered /\ response.status = 201
    /\ Len(store) = 2

\* C3: every record in the store has a non-empty formatted text.
C3_FormattedNeverEmpty ==
    \A i \in 1..Len(store) : store[i].formatted # ""

C3_Witness ==
    /\ Len(store) = 1
    /\ store[1].formatted # ""
    /\ response.route = "/webhook"
    /\ response.status = 200 /\ response.body = "ignored-event"

\* C4: with an empty secret (whatever the header) and with the header absent
\* (whatever the secret), verify_signature returns True for every body, and
\* the delivery is not answered 403.
C4_PermissiveDefault ==
    /\ (vout # <<>> /\ (SECRET_TOKEN = "" \/ vin.signature_header = NoHeader))
          => (vout[1].exc = "" /\ vout[1].val)
    /\ (Answered /\ (SECRET_TOKEN = "" \/ response.req.sig = NoHeader))
          => response.status # 403

C4_Witness ==
    /\ SECRET_TOKEN = ""
    /\ vin.signature_header = Header("sha1")
    /\ vout # <<>>
    /\ Answered /\ response.status = 201

\* C5: with a non-empty secret and the header present (and not empty),
\* verify_signature raises nothing and returns True exactly when the header
\* is "sha1=" followed by the hex HMAC-SHA1 of the body under the secret.
C5_ExactSignatureOnly ==
    (/\ vout # <<>>
     /\ SECRET_TOKEN # ""
     /\ vin.signature_header # NoHeader
     /\ vin.signature_header # Header(""))
        => /\ vout[1].exc = ""
           /\ vout[1].val <=>
                (vin.signature_header = SignatureOf(SECRET_TOKEN, vin.payload_bytes))

OtherPullRequest(req) ==
    LET payload == json_loads(req.data)
    IN  /\ Accepted(req)
        /\ req.event = "pull_request"
        /\ ReadableAt(payload, <<"pull_request">>)
              => ValueAt(payload, <<"pull_request">>).t = "dict"
        /\ ~ActionIs(payload, "opened")
        /\ ~(ActionIs(payload, "closed") /\ MergedIsTrue(payload))

\* C7: a pull_request delivery that is neither opened nor closed with
\* merged == true is answered 200 ignored-pull-action (and so stores nothing).
C7_OnlyOpenedOrMergedStored ==
    (Answered /\ OtherPullRequest(response.req))
        => (response.status = 200 /\ response.body = "ignored-pull-action")

\* C8: the string stored by the last insert is the first element of a
\* GET /api/events that runs before any further insert.
C8_NewestFirstAfterInsert ==
    (response.route = "/api/events" /\ store # <<>>)
        => /\ response.list # <<>>
           /\ response.list[1] = store[Len(store)].formatted

\* C9: GET /api/events answers 200 with at most 50 strings, the formatted
\* texts of the most recently inserted records, the later inserted first.
C9_RecentInInsertionOrder ==
    response.route = "/api/events"
        => /\ response.status = 200
           /\ Len(response.list) <= 50
           /\ Len(response.list) = (IF Len(store) < 50 THEN Len(store) ELSE 50)
           /\ \A i \in 1..Len(response.list) :
                 response.list[i] = store[Len(store) + 1 - i].formatted

\* The reference of C10, computed on the fields of the input: the offset of
\* a zone in minutes, the days of a month, and the day of the month in UTC
\* (an offset moves the instant by less than a day).
RefOffset(zone) ==
    CASE zone = "Z"      -> 0
      [] zone = "+00:00" -> 0
      [] zone = "+05:30" -> 330
      [] zone = "-08:00" -> 0 - 480
      [] zone = "+14:00" -> 840
      [] zone = "-12:00" -> 0 - 720

RefDaysInMonth(year, month) ==
    IF month \in {4, 6, 9, 11} THEN 30
    ELSE IF month # 2 THEN 31
    ELSE IF year % 400 = 0 \/ (year % 4 = 0 /\ year % 100 # 0) THEN 29
    ELSE 28

RefUtcDay(t) ==
    LET minutes == t.hour * 60 + t.minute - RefOffset(t.zone)
    IN  IF minutes < 0
        THEN IF t.day > 1 THEN t.day - 1
             ELSE IF t.month > 1 THEN RefDaysInMonth(t.year, t.month - 1)
             ELSE 31
        ELSE IF minutes >= 1440
        THEN IF t.day < RefDaysInMonth(t.year, t.month) THEN t.day + 1 ELSE 1
        ELSE t.day

RefSuffix(day) ==
    IF day \in {1, 21, 31} THEN "st"
    ELSE IF day \in {2, 22} THEN "nd"
    ELSE IF day \in {3, 23} THEN "rd"
    ELSE "th"

\* C10: for a valid timestamp with Z or a numeric offset, the text starts
\* with the day of the month of the instant in UTC and that day's suffix.
C10_UtcDayWithOrdinalSuffix ==
    (tout # <<>> /\ tin[1].day <= RefDaysInMonth(tin[1].year, tin[1].month))
        => /\ tout[1].exc = ""
           /\ str_split(tout[1].val, " ")[1]
                = ToString(RefUtcDay(tin[1])) \o RefSuffix(RefUtcDay(tin[1]))

C10_Witness ==
    /\ tin = << [year |-> 2024, month |-> 3, day |-> 1, hour |-> 0, minute |-> 5,
                 second |-> 53, zone |-> "+05:30"] >>
    /\ tout = << Ok("29th February 2024 - 06:35 PM UTC") >>

====
